---- MODULE Spec2Model ----
(***************************************************************************)
(* Model of the download-job core of yt-agent (src/src/handlers.rs):       *)
(* the keyed registry of DownloadStatus records, the admission check of    *)
(* start_download, the supervising task run_download_task with its child   *)
(* process and the two pipes, and the progress-line regex.                 *)
(*                                                                         *)
(* Text is a sequence of one-character strings, a line of stdout is the    *)
(* sequence of its whitespace-separated words.  An f64 is kept as a number *)
(* of tenths (45.2 is 452).  Bytes of stderr are strings naming the byte.  *)
(***************************************************************************)
EXTENDS Integers, Sequences, FiniteSets, Bags, TLC

\* ------------------------------------------------------------------ bounds
\* capacity of an OS pipe, in units (lines of stdout, bytes of stderr)
PipeCap == 1
\* most stdout lines one child process writes
MaxLines == 2
\* most supervising tasks alive at once
MaxTasks == 2

\* the longest stderr output of a child: one unit more than a pipe holds
MaxErr == PipeCap + 1

\* ------------------------------------------------------------------ inputs
Keys == {"url1", "url2"}
IoErrors == {"No such file or directory (os error 2)", "Permission denied (os error 13)"}
ExitCodes == {0, 1}
\* an ASCII byte and a byte that occurs in no UTF-8 encoding
Bytes == {"E", "0xFF"}
OneKey == CHOOSE key \in Keys : TRUE
OneError == CHOOSE e \in IoErrors : TRUE

\* ------------------------------------------------------------------ Option
None == << >>
Some(x) == << x >>

\* ------------------------------------------------------------------ characters
DigitChars == <<"0", "1", "2", "3", "4", "5", "6", "7", "8", "9">>
Digit == {DigitChars[i] : i \in 1..Len(DigitChars)}
Letter == {"a", "b", "c", "d", "e", "f", "g", "h", "i", "j", "k", "l", "m",
           "n", "o", "p", "q", "r", "s", "t", "u", "v", "w", "x", "y", "z",
           "A", "B", "C", "D", "E", "F", "G", "H", "I", "J", "K", "L", "M",
           "N", "O", "P", "Q", "R", "S", "T", "U", "V", "W", "X", "Y", "Z"}
\* \w
WordChar == Digit \cup Letter \cup {"_"}
\* [\d\.]
ProgressClass == Digit \cup {"."}
\* [\d\.\w/]
SizeClass == Digit \cup {"."} \cup WordChar \cup {"/"}
\* [\d:]
EtaClass == Digit \cup {":"}

\* the literal words of the pattern
TagWord == <<"[", "d", "o", "w", "n", "l", "o", "a", "d", "]">>
OfWord == <<"o", "f">>
AtWord == <<"a", "t">>
EtaWord == <<"E", "T", "A">>

AllIn(w, C) == \A i \in 1..Len(w) : w[i] \in C
NonEmptyIn(w, C) == Len(w) > 0 /\ AllIn(w, C)
HasSuffix(w, s) == Len(w) >= Len(s) /\ SubSeq(w, Len(w) - Len(s) + 1, Len(w)) = s
\* the longest prefix of w made of characters of C (a greedy C+ or C*)
PrefixLen(w, C) == CHOOSE n \in 0..Len(w) :
                      /\ \A i \in 1..n : w[i] \in C
                      /\ (n < Len(w) => w[n + 1] \notin C)
PrefixIn(w, C) == SubSeq(w, 1, PrefixLen(w, C))

\* ------------------------------------------------------------------ YTDLP_REGEX
\* (?P<progress>[\d\.]+)% as one word
IsProgressWord(w) == Len(w) >= 2 /\ w[Len(w)] = "%" /\ AllIn(SubSeq(w, 1, Len(w) - 1), ProgressClass)
\* \s+ETA\s+(?P<eta>[\d:]+) at words n, n+1
EtaAt(ws, n) == n + 1 <= Len(ws) /\ ws[n] = EtaWord /\ PrefixLen(ws[n + 1], EtaClass) > 0
\* (?:\s+at\s+(?P<speed>[\d\.\w/]+)) at words n, n+1
SpeedAt(ws, n) == n + 1 <= Len(ws) /\ ws[n] = AtWord /\ NonEmptyIn(ws[n + 1], SizeClass)
\* the captures when the part of the pattern after the size starts at word n
TailAt(ws, n) ==
    IF SpeedAt(ws, n) /\ EtaAt(ws, n + 2)
    THEN Some([speed |-> Some(ws[n + 1]), eta |-> PrefixIn(ws[n + 3], EtaClass)])
    ELSE IF EtaAt(ws, n)
    THEN Some([speed |-> None, eta |-> PrefixIn(ws[n + 1], EtaClass)])
    ELSE None
\* ~?\s*(?P<size>[\d\.\w/]+) starting at word j: the size and the word after it
SizeAt(ws, j) ==
    IF j > Len(ws) THEN None
    ELSE IF NonEmptyIn(ws[j], SizeClass) THEN Some([size |-> ws[j], next |-> j + 1])
    ELSE IF Len(ws[j]) >= 2 /\ ws[j][1] = "~" /\ AllIn(Tail(ws[j]), SizeClass)
    THEN Some([size |-> Tail(ws[j]), next |-> j + 1])
    ELSE IF ws[j] = <<"~">> /\ j + 1 <= Len(ws) /\ NonEmptyIn(ws[j + 1], SizeClass)
    THEN Some([size |-> ws[j + 1], next |-> j + 2])
    ELSE None
\* the captures of a match whose tag is word i
MatchAt(ws, i) ==
    IF /\ i + 2 <= Len(ws)
       /\ HasSuffix(ws[i], TagWord)
       /\ IsProgressWord(ws[i + 1])
       /\ ws[i + 2] = OfWord
       /\ SizeAt(ws, i + 3) # None
       /\ TailAt(ws, SizeAt(ws, i + 3)[1].next) # None
    THEN Some([progress |-> SubSeq(ws[i + 1], 1, Len(ws[i + 1]) - 1),
               size |-> SizeAt(ws, i + 3)[1].size,
               speed |-> TailAt(ws, SizeAt(ws, i + 3)[1].next)[1].speed,
               eta |-> TailAt(ws, SizeAt(ws, i + 3)[1].next)[1].eta])
    ELSE None
\* YTDLP_REGEX.captures(&line): the leftmost match, unanchored
Captures(ws) ==
    IF \E i \in 1..Len(ws) : MatchAt(ws, i) # None
    THEN MatchAt(ws, CHOOSE i \in 1..Len(ws) :
                        /\ MatchAt(ws, i) # None
                        /\ \A j \in 1..(i - 1) : MatchAt(ws, j) = None)
    ELSE None

\* ------------------------------------------------------------------ str::parse::<f64>
DigitVal(c) == CHOOSE n \in 0..9 : DigitChars[n + 1] = c
RECURSIVE IntValue(_)
IntValue(ds) == IF ds = << >> THEN 0
                ELSE IntValue(SubSeq(ds, 1, Len(ds) - 1)) * 10 + DigitVal(ds[Len(ds)])
Tenths(int, frac) == IntValue(int) * 10 + (IF frac = << >> THEN 0 ELSE DigitVal(frac[1]))
Dots(tok) == {i \in 1..Len(tok) : tok[i] = "."}
\* a token of digits and dots is a float when it has a digit and at most one dot
ParseF64(tok) ==
    IF ~AllIn(tok, ProgressClass) \/ Cardinality(Dots(tok)) > 1 \/ Len(tok) = Cardinality(Dots(tok))
    THEN None
    ELSE IF Dots(tok) = {} THEN Some(Tenths(tok, << >>))
    ELSE LET d == CHOOSE i \in Dots(tok) : TRUE
         IN Some(Tenths(SubSeq(tok, 1, d - 1), SubSeq(tok, d + 1, Len(tok))))
\* caps.name("progress").and_then(|m| m.as_str().parse().ok()).unwrap_or(0.0)
ProgressOf(caps) == IF ParseF64(caps.progress) = None THEN 0 ELSE ParseF64(caps.progress)[1]
\* caps.name(..).map_or_else(String::new, |m| m.as_str().to_string())
StringOrEmpty(opt) == IF opt = None THEN << >> ELSE opt[1]
\* what one turn of the loop takes from a line: nothing when the pattern does not
\* match, else the values for progress, eta and speed
Observation(line) ==
    IF Captures(line) = None THEN None
    ELSE Some([progress |-> ProgressOf(Captures(line)[1]),
               eta |-> StringOrEmpty(Some(Captures(line)[1].eta)),
               speed |-> StringOrEmpty(Captures(line)[1].speed)])
\* 100.0
FullProgress == Tenths(<<"1", "0", "0">>, << >>)

\* ------------------------------------------------------------------ stdout lines
\* "[download]  45.2% of ~10.00MiB at 1.5MiB/s ETA 00:07"
LineRate == <<TagWord, <<"4", "5", ".", "2", "%">>, OfWord,
              <<"~", "1", "0", ".", "0", "0", "M", "i", "B">>, AtWord,
              <<"1", ".", "5", "M", "i", "B", "/", "s">>, EtaWord, <<"0", "0", ":", "0", "7">>>>
\* "[download]  100% of 20.00MiB"
LineNoEta == <<TagWord, <<"1", "0", "0", "%">>, OfWord, <<"2", "0", ".", "0", "0", "M", "i", "B">>>>
\* "[download]  ...% of 1MiB ETA 00:01"
LineDots == <<TagWord, <<".", ".", ".", "%">>, OfWord, <<"1", "M", "i", "B">>, EtaWord,
              <<"0", "0", ":", "0", "1">>>>
\* "[download]  250% of 1MiB ETA 00:09"
LineOver == <<TagWord, <<"2", "5", "0", "%">>, OfWord, <<"1", "M", "i", "B">>, EtaWord,
              <<"0", "0", ":", "0", "9">>>>
\* a line of bytes that are no UTF-8: lines.next() yields Some(Err(_)) for it
InvalidUtf8Line == <<<<"0xFF">>>>
TextLines == {LineRate, LineNoEta, LineDots, LineOver}
StdoutLines == TextLines \cup {InvalidUtf8Line}
\* Observation, tabulated over the lines of the model
Observed == [line \in TextLines |-> Observation(line)]

\* ------------------------------------------------------------------ String::from_utf8_lossy
ReplacementChar == "U+FFFD"
DecodeByte(b) == IF b = "0xFF" THEN ReplacementChar ELSE b
FromUtf8Lossy(bytes) == [i \in 1..Len(bytes) |-> DecodeByte(bytes[i])]
\* the UTF-8 encoding of a character
EncodeChar(c) == IF c = ReplacementChar THEN <<"0xEF", "0xBF", "0xBD">> ELSE <<c>>
RECURSIVE Utf8Bytes(_)
Utf8Bytes(text) == IF text = << >> THEN << >> ELSE EncodeChar(Head(text)) \o Utf8Bytes(Tail(text))
\* format!("<prefix>{}", e)
Format(prefix, e) == <<prefix, e>>

\* ------------------------------------------------------------------ DownloadStatus
\* DownloadStatus::default()
DefaultStatus == [status |-> "", progress |-> 0, eta |-> << >>, speed |-> << >>, error |-> None]
\* DownloadStatus { status: "starting".to_string(), ..Default::default() }
StartingStatus == [DefaultStatus EXCEPT !.status = "starting"]
\* the duplicate check without the "starting" case
AlreadyInProgress_OnlyDownloading(map, key) ==
    key \in DOMAIN map /\ map[key].status = "downloading"
\* the duplicate check without the "downloading" case
AlreadyInProgress_OnlyStarting(map, key) ==
    key \in DOMAIN map /\ map[key].status = "starting"
\* the duplicate check of start_download
AlreadyInProgress(map, key) ==
    key \in DOMAIN map /\ (map[key].status = "downloading" \/ map[key].status = "starting")
Insert_KeepDisplay(map, key, value) ==
    [k \in DOMAIN map \cup {key} |->
        IF k # key THEN map[k]
        ELSE IF key \in DOMAIN map
        THEN [value EXCEPT !.progress = map[key].progress,
                           !.eta = map[key].eta,
                           !.speed = map[key].speed]
        ELSE value]

\* an insert that, for a key already there, sets the status field alone
Insert_StatusOnly(map, key, value) ==
    IF key \in DOMAIN map THEN [map EXCEPT ![key].status = value.status]
    ELSE [k \in DOMAIN map \cup {key} |-> IF k = key THEN value ELSE map[k]]
\* map.insert(key, value)
Insert(map, key, value) == [k \in DOMAIN map \cup {key} |-> IF k = key THEN value ELSE map[k]]
ProgressUpdate_KeepSpeed(status, obs) ==
    [status EXCEPT !.status = "downloading",
                   !.progress = obs.progress,
                   !.eta = obs.eta,
                   !.speed = IF obs.speed = << >> THEN @ ELSE obs.speed]

ProgressUpdate_KeepMax(status, obs) ==
    [status EXCEPT !.status = "downloading",
                   !.progress = IF obs.progress > @ THEN obs.progress ELSE @,
                   !.eta = obs.eta,
                   !.speed = obs.speed]

\* the four fields a matching line sets
ProgressUpdate(status, obs) ==
    [status EXCEPT !.status = "downloading",
                   !.progress = obs.progress,
                   !.eta = obs.eta,
                   !.speed = obs.speed]
\* a final update that also empties the display strings
FinalUpdate_ClearDisplay(status, success, stderr) ==
    [status EXCEPT !.status = IF success THEN "completed" ELSE "failed",
                   !.error = IF success THEN None ELSE Some(FromUtf8Lossy(stderr)),
                   !.progress = IF success THEN FullProgress ELSE @,
                   !.eta = << >>,
                   !.speed = << >>]

\* a final update that leaves progress alone
FinalUpdate_KeepProgress(status, success, stderr) ==
    [status EXCEPT !.status = IF success THEN "completed" ELSE "failed",
                   !.error = IF success THEN None ELSE Some(FromUtf8Lossy(stderr))]
\* the final update of run_download_task
FinalUpdate(status, success, stderr) ==
    LET final_status_str == IF success THEN "completed" ELSE "failed"
        final_error == IF success THEN None ELSE Some(FromUtf8Lossy(stderr))
    IN [status EXCEPT !.status = final_status_str,
                      !.error = final_error,
                      !.progress = IF final_status_str = "completed" THEN FullProgress ELSE @]
\* a failure update that sets the status alone
FailedUpdate_StatusOnly(status, error_message) ==
    [status EXCEPT !.status = "failed"]
\* update_status_to_failed
FailedUpdate(status, error_message) ==
    [status EXCEPT !.status = "failed", !.error = Some(error_message)]
GetMutApply_AllKeys(map, key, new) == IF key \in DOMAIN map THEN [k \in DOMAIN map |-> new] ELSE map

\* if let Some(status) = map.get_mut(key) { .. }
GetMutApply(map, key, new) == IF key \in DOMAIN map THEN [map EXCEPT ![key] = new] ELSE map

\* ------------------------------------------------------------------ responses
Accepted == [code |-> 202, message |-> "Download started successfully"]
BadRequest == [code |-> 400, message |-> "A download for this URL is already in progress."]
Internal == [code |-> 500, message |-> "An internal server error occurred"]

\* ------------------------------------------------------------------ state
VARIABLES
    downloads,  \* the registry: key -> DownloadStatus
    tasks,      \* the bag of supervising tasks that have not returned, each with its child
    response,   \* the answer to the latest POST /download: <<key, response>>, or None
    lock,       \* the Mutex of the registry: None, or Some(who holds its guard)
    snapshot,   \* the body of the latest answer to GET /status, or None
    request,    \* a DownloadRequest with its output template, or None
    argv        \* the arguments of the command built for request, or None

vars == <<downloads, tasks, response, lock, snapshot, request, argv>>

\* state.downloads.lock().unwrap() with the guard dropped at the end of its scope,
\* before the next await
WithLock == lock = None /\ lock' = None

\* a task spawned by start_download, before cmd.spawn(); seen is the lines its
\* loop has taken from stdout, in the order it took them
NewTask(key) == [key |-> key, pc |-> "spawn", out_left |-> 0, err_left |-> 0,
                 stdout |-> << >>, stderr |-> << >>, written |-> << >>, captured |-> << >>,
                 exited |-> FALSE, code |-> 0, seen |-> << >>]
Running == BagToSet(tasks)
Put(t) == tasks (+) SetToBag({t})
Drop(t) == tasks (-) SetToBag({t})
Replace(t, u) == (tasks (-) SetToBag({t})) (+) SetToBag({u})

Init ==
    /\ downloads = << >>
    /\ tasks = EmptyBag
    /\ response = None
    /\ lock = None
    /\ snapshot = None
    /\ request = None
    /\ argv = None

\* a handler that inserts the new record before it looks for a duplicate
start_download_InsertFirst(key, dir_ok) ==
    IF ~dir_ok
    THEN /\ response' = <<key, Internal>>
         /\ UNCHANGED <<downloads, tasks, lock, snapshot, request, argv>>
    ELSE IF AlreadyInProgress(downloads, key)
    THEN /\ WithLock
         /\ response' = <<key, BadRequest>>
         /\ downloads' = Insert(downloads, key, StartingStatus)
         /\ UNCHANGED <<tasks, snapshot, request, argv>>
    ELSE /\ BagCardinality(tasks) < MaxTasks
         /\ WithLock
         /\ downloads' = Insert(downloads, key, StartingStatus)
         /\ tasks' = Put(NewTask(key))
         /\ response' = <<key, Accepted>>
         /\ UNCHANGED <<snapshot, request, argv>>

start_download_SpawnOnReject(key, dir_ok) ==
    IF ~dir_ok
    THEN /\ response' = <<key, Internal>>
         /\ UNCHANGED <<downloads, tasks, lock, snapshot, request, argv>>
    ELSE IF AlreadyInProgress(downloads, key)
    THEN /\ BagCardinality(tasks) < MaxTasks
         /\ WithLock
         /\ response' = <<key, BadRequest>>
         /\ tasks' = Put(NewTask(key))
         /\ UNCHANGED <<downloads, snapshot, request, argv>>
    ELSE /\ BagCardinality(tasks) < MaxTasks
         /\ WithLock
         /\ downloads' = Insert(downloads, key, StartingStatus)
         /\ tasks' = Put(NewTask(key))
         /\ response' = <<key, Accepted>>
         /\ UNCHANGED <<snapshot, request, argv>>

\* POST /download for key; dir_ok: create_dir_all succeeded
start_download(key, dir_ok) ==
    IF ~dir_ok
    THEN /\ response' = <<key, Internal>>
         /\ UNCHANGED <<downloads, tasks, lock, snapshot, request, argv>>
    ELSE IF AlreadyInProgress(downloads, key)
    THEN /\ WithLock
         /\ response' = <<key, BadRequest>>
         /\ UNCHANGED <<downloads, tasks, snapshot, request, argv>>
    ELSE /\ BagCardinality(tasks) < MaxTasks
         /\ WithLock
         /\ downloads' = Insert(downloads, key, StartingStatus)
         /\ tasks' = Put(NewTask(key))
         /\ response' = <<key, Accepted>>
         /\ UNCHANGED <<snapshot, request, argv>>

SpawnFails_Reported(t, e) ==
    /\ t.pc = "spawn"
    /\ downloads' = IF t.key \in DOMAIN downloads
                    THEN GetMutApply(downloads, t.key,
                           FailedUpdate(downloads[t.key], Format("Failed to start yt-dlp process: ", e)))
                    ELSE downloads
    /\ tasks' = Drop(t)
    /\ WithLock
    /\ response' = <<t.key, Internal>>
    /\ UNCHANGED <<snapshot, request, argv>>

\* cmd.spawn() fails with e
SpawnFails(t, e) ==
    /\ t.pc = "spawn"
    /\ downloads' = IF t.key \in DOMAIN downloads
                    THEN GetMutApply(downloads, t.key,
                           FailedUpdate(downloads[t.key], Format("Failed to start yt-dlp process: ", e)))
                    ELSE downloads
    /\ tasks' = Drop(t)
    /\ WithLock
    /\ UNCHANGED <<response, snapshot, request, argv>>

\* cmd.spawn() succeeds: a child that will write n_out lines and n_err bytes
SpawnOk(t, n_out, n_err) ==
    /\ t.pc = "spawn"
    /\ tasks' = Replace(t, [t EXCEPT !.pc = "read", !.out_left = n_out, !.err_left = n_err])
    /\ UNCHANGED <<downloads, response, lock, snapshot, request, argv>>

\* the child writes a line to stdout; it blocks while the pipe is full and is
\* not held up once the reading end is dropped
ChildWriteStdout(t, line) ==
    /\ t.pc \in {"read", "wait"}
    /\ ~t.exited
    /\ t.out_left > 0
    /\ IF t.pc = "read"
       THEN /\ Len(t.stdout) < PipeCap
            /\ tasks' = Replace(t, [t EXCEPT !.out_left = @ - 1, !.stdout = Append(@, line)])
       ELSE tasks' = Replace(t, [t EXCEPT !.out_left = @ - 1])
    /\ UNCHANGED <<downloads, response, lock, snapshot, request, argv>>

\* the child writes a byte to stderr; it blocks while the pipe is full
ChildWriteStderr(t, b) ==
    /\ t.pc \in {"read", "wait"}
    /\ ~t.exited
    /\ t.err_left > 0
    /\ Len(t.stderr) < PipeCap
    /\ tasks' = Replace(t, [t EXCEPT !.err_left = @ - 1, !.stderr = Append(@, b),
                                     !.written = Append(@, b)])
    /\ UNCHANGED <<downloads, response, lock, snapshot, request, argv>>

\* the child has written all it had and exits, which closes its ends of the pipes
ChildExit(t, code) ==
    /\ t.pc \in {"read", "wait"}
    /\ ~t.exited
    /\ t.out_left = 0
    /\ t.err_left = 0
    /\ tasks' = Replace(t, [t EXCEPT !.exited = TRUE, !.code = code])
    /\ UNCHANGED <<downloads, response, lock, snapshot, request, argv>>

ReadLine_GuardAcrossAwait(t) ==
    /\ t.pc = "read"
    /\ t.stdout # << >>
    /\ Head(t.stdout) \in TextLines
    /\ tasks' = Replace(t, [t EXCEPT !.stdout = Tail(@), !.seen = Append(@, Head(t.stdout))])
    /\ IF Observed[Head(t.stdout)] # None
       THEN lock = None /\ lock' = Some(t.key)
       ELSE UNCHANGED lock
    /\ downloads' = IF Observed[Head(t.stdout)] # None /\ t.key \in DOMAIN downloads
                    THEN GetMutApply(downloads, t.key,
                           ProgressUpdate(downloads[t.key], Observed[Head(t.stdout)][1]))
                    ELSE downloads
    /\ UNCHANGED <<response, snapshot, request, argv>>

\* one turn of the while let loop: lines.next() yields Some(Ok(line))
ReadLine(t) ==
    /\ t.pc = "read"
    /\ t.stdout # << >>
    /\ Head(t.stdout) \in TextLines
    /\ tasks' = Replace(t, [t EXCEPT !.stdout = Tail(@), !.seen = Append(@, Head(t.stdout))])
    /\ IF Observed[Head(t.stdout)] # None THEN WithLock ELSE UNCHANGED lock
    /\ downloads' = IF Observed[Head(t.stdout)] # None /\ t.key \in DOMAIN downloads
                    THEN GetMutApply(downloads, t.key,
                           ProgressUpdate(downloads[t.key], Observed[Head(t.stdout)][1]))
                    ELSE downloads
    /\ UNCHANGED <<response, snapshot, request, argv>>

\* lines.next() yields Some(Err(_)): the loop ends and the reader is dropped
ReadError(t) ==
    /\ t.pc = "read"
    /\ t.stdout # << >>
    /\ Head(t.stdout) \notin TextLines
    /\ tasks' = Replace(t, [t EXCEPT !.pc = "wait", !.stdout = << >>])
    /\ UNCHANGED <<downloads, response, lock, snapshot, request, argv>>

\* lines.next() yields None: the pipe is empty and the child has closed it
ReadEof(t) ==
    /\ t.pc = "read"
    /\ t.stdout = << >>
    /\ t.exited
    /\ tasks' = Replace(t, [t EXCEPT !.pc = "wait"])
    /\ UNCHANGED <<downloads, response, lock, snapshot, request, argv>>

\* a read of stderr that keeps the latest chunk alone
WaitDrain_Overwrite(t) ==
    /\ t.pc = "wait"
    /\ t.stderr # << >>
    /\ tasks' = Replace(t, [t EXCEPT !.captured = t.stderr, !.stderr = << >>])
    /\ UNCHANGED <<downloads, response, lock, snapshot, request, argv>>

\* wait_with_output reads what stderr holds
WaitDrain(t) ==
    /\ t.pc = "wait"
    /\ t.stderr # << >>
    /\ tasks' = Replace(t, [t EXCEPT !.captured = @ \o t.stderr, !.stderr = << >>])
    /\ UNCHANGED <<downloads, response, lock, snapshot, request, argv>>

\* wait_with_output fails with e
WaitFails(t, e) ==
    /\ t.pc = "wait"
    /\ downloads' = IF t.key \in DOMAIN downloads
                    THEN GetMutApply(downloads, t.key,
                           FailedUpdate(downloads[t.key], Format("Download process failed to execute: ", e)))
                    ELSE downloads
    /\ tasks' = Drop(t)
    /\ WithLock
    /\ UNCHANGED <<response, snapshot, request, argv>>

\* wait_with_output returns: the child has exited and stderr is read to its end
Finalize(t) ==
    /\ t.pc = "wait"
    /\ t.exited
    /\ t.stderr = << >>
    /\ downloads' = IF t.key \in DOMAIN downloads
                    THEN GetMutApply(downloads, t.key,
                           FinalUpdate(downloads[t.key], t.code = 0, t.captured))
                    ELSE downloads
    /\ tasks' = Drop(t)
    /\ WithLock
    /\ UNCHANGED <<response, snapshot, request, argv>>

get_status_Torn ==
    /\ WithLock
    /\ snapshot' = Some([k \in DOMAIN downloads |->
                           IF snapshot # None /\ k \in DOMAIN snapshot[1]
                           THEN [downloads[k] EXCEPT !.status = snapshot[1][k].status]
                           ELSE downloads[k]])
    /\ UNCHANGED <<downloads, tasks, response, request, argv>>

get_status_Drain ==
    /\ WithLock
    /\ snapshot' = Some(downloads)
    /\ downloads' = [k \in {j \in DOMAIN downloads : downloads[j].status \in {"starting", "downloading"}}
                       |-> downloads[k]]
    /\ UNCHANGED <<tasks, response, request, argv>>

\* GET /status: Json(map.clone()) under the lock
get_status ==
    /\ WithLock
    /\ snapshot' = Some(downloads)
    /\ UNCHANGED <<downloads, tasks, response, request, argv>>

\* the steps of the program for submissions of keys, children that write up to outs
\* lines of lines and up to errs bytes of bytes, and I/O errors of errors
NextOn(keys, lines, bytes, errors, outs, errs) ==
    \/ \E key \in keys, dir_ok \in BOOLEAN : start_download(key, dir_ok)
    \/ \E t \in Running, e \in errors : SpawnFails(t, e)
    \/ \E t \in Running, n_out \in outs, n_err \in errs : SpawnOk(t, n_out, n_err)
    \/ \E t \in Running, line \in lines : ChildWriteStdout(t, line)
    \/ \E t \in Running, b \in bytes : ChildWriteStderr(t, b)
    \/ \E t \in Running, code \in ExitCodes : ChildExit(t, code)
    \/ \E t \in Running : ReadLine(t)
    \/ \E t \in Running : ReadError(t)
    \/ \E t \in Running : ReadEof(t)
    \/ \E t \in Running : WaitDrain(t)
    \/ \E t \in Running, e \in errors : WaitFails(t, e)
    \/ \E t \in Running : Finalize(t)

\* two keys whose jobs run side by side; to keep the product of the two jobs
\* small their children write one line at most, a matching one or one that is no
\* UTF-8, and one kind of stderr byte
Next == NextOn(Keys, {LineRate, InvalidUtf8Line}, {"E"}, {OneError}, {0, 1}, {0, 1, MaxErr})
Spec == Init /\ [][Next]_vars

\* one key, with every line, byte, I/O error and output length of the model
JobNext == NextOn({OneKey}, StdoutLines, Bytes, IoErrors, 0..MaxLines, 0..MaxErr)
JobSpec == Init /\ [][JobNext]_vars

\* a task or child step that the runtime and the OS take when it is possible;
\* a failing wait_with_output is an I/O error and no step anything guarantees
TaskStep ==
    \E t \in Running :
        \/ \E e \in IoErrors : SpawnFails(t, e)
        \/ \E n_out \in 0..MaxLines, n_err \in 0..MaxErr : SpawnOk(t, n_out, n_err)
        \/ ReadLine(t)
        \/ ReadError(t)
        \/ ReadEof(t)
        \/ WaitDrain(t)
        \/ Finalize(t)
ChildStep ==
    \E t \in Running :
        \/ \E line \in StdoutLines : ChildWriteStdout(t, line)
        \/ \E b \in Bytes : ChildWriteStderr(t, b)
        \/ \E code \in ExitCodes : ChildExit(t, code)
FairJobSpec == JobSpec /\ WF_vars(TaskStep) /\ WF_vars(ChildStep)

\* ------------------------------------------------------------------ the command
\* an argument or a request value: text in pieces
Arg(s) == <<s>>
\* config.download_directory of Config::default() without a user download directory
DownloadDirectory == Arg("downloads")
DefaultFileTemplate == "%(title)s [%(id)s].%(ext)s"
\* PathBuf::join of a directory and a relative file name
PathJoin(dir, file) == dir \o <<"/", file>>
\* the template of the request if it has one, else one under the configured directory
OutputTemplate(payload, download_directory) ==
    IF payload.output_template # None
    THEN payload.output_template[1]
    ELSE PathJoin(download_directory, DefaultFileTemplate)
UnwrapOr(opt, default) == IF opt # None THEN opt[1] ELSE default
\* if flag { cmd.arg(name); }
BoolArg(name, flag) == IF flag THEN <<Arg(name)>> ELSE << >>
\* if let Some(value) = &opt { cmd.arg(name).arg(value); }
OptArg(name, opt) == IF opt # None THEN <<Arg(name), opt[1]>> ELSE << >>

BuildArgs_UrlFirst(payload, output_template) ==
    <<Arg("-f"), payload.format_id, Arg("--newline"), Arg("-o"), output_template, payload.url>>
    \o BoolArg("--write-info-json", payload.write_info_json)
    \o BoolArg("--write-thumbnail", payload.write_thumbnail)
    \o BoolArg("--restrict-filenames", payload.restrict_filenames)
    \o OptArg("--playlist-items", payload.playlist_items)
    \o OptArg("--match-filters", payload.match_filter)
    \o OptArg("--max-filesize", payload.max_filesize)
    \o (IF payload.extract_audio
        THEN <<Arg("--extract-audio")>>
             \o OptArg("--audio-format", payload.audio_format)
             \o OptArg("--audio-quality", payload.audio_quality)
        ELSE OptArg("--remux-video", payload.remux_video))
    \o BoolArg("--embed-thumbnail", UnwrapOr(payload.embed_thumbnail, FALSE))
    \o OptArg("--sponsorblock-remove", payload.sponsorblock_remove)
    \o OptArg("--sponsorblock-mark", payload.sponsorblock_mark)

BuildArgs_RemuxAlways(payload, output_template) ==
    <<Arg("-f"), payload.format_id, Arg("--newline"), Arg("-o"), output_template>>
    \o BoolArg("--write-info-json", payload.write_info_json)
    \o BoolArg("--write-thumbnail", payload.write_thumbnail)
    \o BoolArg("--restrict-filenames", payload.restrict_filenames)
    \o OptArg("--playlist-items", payload.playlist_items)
    \o OptArg("--match-filters", payload.match_filter)
    \o OptArg("--max-filesize", payload.max_filesize)
    \o (IF payload.extract_audio
        THEN <<Arg("--extract-audio")>>
             \o OptArg("--audio-format", payload.audio_format)
             \o OptArg("--audio-quality", payload.audio_quality)
        ELSE << >>)
    \o OptArg("--remux-video", payload.remux_video)
    \o BoolArg("--embed-thumbnail", UnwrapOr(payload.embed_thumbnail, FALSE))
    \o OptArg("--sponsorblock-remove", payload.sponsorblock_remove)
    \o OptArg("--sponsorblock-mark", payload.sponsorblock_mark)
    \o <<payload.url>>

\* the arguments of the yt-dlp command of run_download_task, in its order
BuildArgs(payload, output_template) ==
    <<Arg("-f"), payload.format_id, Arg("--newline"), Arg("-o"), output_template>>
    \o BoolArg("--write-info-json", payload.write_info_json)
    \o BoolArg("--write-thumbnail", payload.write_thumbnail)
    \o BoolArg("--restrict-filenames", payload.restrict_filenames)
    \o OptArg("--playlist-items", payload.playlist_items)
    \o OptArg("--match-filters", payload.match_filter)
    \o OptArg("--max-filesize", payload.max_filesize)
    \o (IF payload.extract_audio
        THEN <<Arg("--extract-audio")>>
             \o OptArg("--audio-format", payload.audio_format)
             \o OptArg("--audio-quality", payload.audio_quality)
        ELSE OptArg("--remux-video", payload.remux_video))
    \o BoolArg("--embed-thumbnail", UnwrapOr(payload.embed_thumbnail, FALSE))
    \o OptArg("--sponsorblock-remove", payload.sponsorblock_remove)
    \o OptArg("--sponsorblock-mark", payload.sponsorblock_mark)
    \o <<payload.url>>

\* None or the one value v
Opt(v) == {None, Some(Arg(v))}
\* the requests of the model: every combination of the optional directives
Requests ==
    [url : {Arg(k) : k \in Keys},
     format_id : {Arg("best")},
     output_template : Opt("custom/%(id)s.%(ext)s"),
     write_info_json : BOOLEAN,
     write_thumbnail : BOOLEAN,
     restrict_filenames : BOOLEAN,
     playlist_items : Opt("1-3"),
     match_filter : Opt("duration>60"),
     max_filesize : Opt("100M"),
     extract_audio : BOOLEAN,
     audio_format : Opt("mp3"),
     audio_quality : Opt("0"),
     remux_video : Opt("mkv"),
     embed_thumbnail : {None, Some(TRUE), Some(FALSE)},
     sponsorblock_remove : Opt("sponsor"),
     sponsorblock_mark : Opt("intro")]

\* a request has been deserialized and no command built for it yet
ArgInit ==
    /\ downloads = << >>
    /\ tasks = EmptyBag
    /\ response = None
    /\ lock = None
    /\ snapshot = None
    /\ request \in {Some(r) : r \in Requests}
    /\ argv = None
\* start_download chooses the template and run_download_task builds the command
BuildCommand ==
    /\ request # None
    /\ argv = None
    /\ argv' = Some(BuildArgs(request[1], OutputTemplate(request[1], DownloadDirectory)))
    /\ UNCHANGED <<downloads, tasks, response, lock, snapshot, request>>
ArgNext == BuildCommand
ArgSpec == ArgInit /\ [][ArgNext]_vars

\* the steps of the supervising task of key k; the runtime takes them when they
\* are possible, whatever the other tasks and the children do
TaskStepOf(k) ==
    \E t \in Running :
        /\ t.key = k
        /\ \/ SpawnFails(t, OneError)
           \/ \E n_out \in {0, 1}, n_err \in {0, 1, MaxErr} : SpawnOk(t, n_out, n_err)
           \/ ReadLine(t)
           \/ ReadError(t)
           \/ ReadEof(t)
           \/ WaitDrain(t)
           \/ Finalize(t)
\* two keys, their jobs and status queries side by side; the children write one
\* matching line at most and nothing to stderr
SnapNext ==
    \/ \E key \in Keys, dir_ok \in BOOLEAN : start_download(key, dir_ok)
    \/ \E t \in Running : SpawnFails(t, OneError)
    \/ \E t \in Running, n_out \in {0, 1} : SpawnOk(t, n_out, 0)
    \/ \E t \in Running : ChildWriteStdout(t, LineRate)
    \/ \E t \in Running, code \in ExitCodes : ChildExit(t, code)
    \/ \E t \in Running : ReadLine(t)
    \/ \E t \in Running : ReadEof(t)
    \/ \E t \in Running : Finalize(t)
    \/ get_status
SnapSpec == Init /\ [][SnapNext]_vars

\* two keys with fair tasks; no child has to write or to exit
FairSpec == Spec /\ \A k \in Keys : WF_vars(TaskStepOf(k))

\* ------------------------------------------------------------------ claims
InProgress(k) == k \in DOMAIN downloads /\ downloads[k].status \in {"starting", "downloading"}
Finished(k) == k \in DOMAIN downloads /\ downloads[k].status \in {"completed", "failed"}
HasTask(k) == \E t \in Running : t.key = k

\* C1: a submission for a key whose record is Starting or Downloading is answered
\* with the duplicate error; a submission for a key with no record or a Completed
\* or Failed record is accepted and leaves the record in state Starting.
C1_Admission ==
    [][\A k \in Keys :
         start_download(k, TRUE) =>
            IF InProgress(k)
            THEN response' = <<k, BadRequest>>
            ELSE /\ response' = <<k, Accepted>>
                 /\ k \in DOMAIN downloads'
                 /\ downloads'[k].status = "starting"]_vars
\* a second submission was rejected while the first had not left Starting
C1_Witness ==
    \E k \in Keys : response = <<k, BadRequest>> /\ InProgress(k) /\ downloads[k].status = "starting"

\* C2: a submission answered with the duplicate error leaves the registry and the
\* set of supervising tasks as they were.
C2_RejectedChangesNothing ==
    [][\A k \in Keys, ok \in BOOLEAN :
         (start_download(k, ok) /\ response' = <<k, BadRequest>>) =>
            (downloads' = downloads /\ tasks' = tasks)]_vars
\* a submission was rejected while the job had already reported progress
C2_Witness ==
    \E k \in Keys :
        /\ response = <<k, BadRequest>>
        /\ k \in DOMAIN downloads
        /\ downloads[k].status = "downloading"
        /\ downloads[k].eta # << >>
        /\ BagCardinality(tasks) = 1

\* the edges named by the claim, and the edge from Starting to Completed
NamedEdges == {<<"starting", "downloading">>, <<"downloading", "completed">>,
               <<"downloading", "failed">>, <<"starting", "failed">>}
MovesAlong(edges) ==
    \A k \in DOMAIN downloads :
        /\ k \in DOMAIN downloads'
        /\ downloads'[k] # downloads[k] =>
              \/ <<downloads[k].status, downloads'[k].status>> \in edges
              \/ downloads[k].status = "downloading" /\ downloads'[k].status = "downloading"
              \/ /\ Finished(k)
                 /\ start_download(k, TRUE)
                 /\ downloads'[k].status = "starting"
\* C3 as stated: a record changes only along Starting -> Downloading ->
\* {Completed, Failed} or Starting -> Failed, or by a new admission of a finished key.
C3_NamedEdgesOnly == [][MovesAlong(NamedEdges)]_vars
\* C3 as amended: the same with the edge Starting -> Completed, taken when the
\* process exits zero without a matching progress line.
C3_Forward == [][MovesAlong(NamedEdges \cup {<<"starting", "completed">>})]_vars
\* a record that went through Downloading and is Completed
C3_Witness ==
    \E k \in DOMAIN downloads : downloads[k].status = "completed" /\ downloads[k].eta # << >>

\* C4: a record has an error exactly when its state is Failed.
C4_ErrorIffFailed ==
    \A k \in DOMAIN downloads : (downloads[k].error # None) <=> (downloads[k].status = "failed")
\* one key Failed with an error beside another that is Completed
C4_Witness ==
    \E k1, k2 \in DOMAIN downloads :
        /\ downloads[k1].status = "failed" /\ downloads[k1].error # None
        /\ downloads[k2].status = "completed" /\ downloads[k2].error = None

\* C5: the progress of every record is between 0 and 100.
C5_ProgressInRange ==
    \A k \in DOMAIN downloads : 0 <= downloads[k].progress /\ downloads[k].progress <= FullProgress

\* C6: reading a line that has the progress shape and a percentage that is no
\* number leaves the registry as it was.
C6_UnparsableIgnored ==
    [][\A t \in Running :
         (/\ ReadLine(t)
          /\ Captures(Head(t.stdout)) # None
          /\ ParseF64(Captures(Head(t.stdout))[1].progress) = None) =>
            downloads' = downloads]_vars

\* C7: a record that is Starting or Downloading is eventually Completed or Failed.
C7_EventuallyFinished == \A k \in Keys : InProgress(k) ~> Finished(k)

\* C8: when wait_with_output returns a zero exit code the record becomes Completed
\* with progress 100 and no error, and every Completed record has progress 100.
C8_ExitZeroCompletes ==
    /\ [][\A t \in Running :
            (Finalize(t) /\ t.code = 0) =>
               /\ t.key \in DOMAIN downloads'
               /\ downloads'[t.key].status = "completed"
               /\ downloads'[t.key].progress = FullProgress
               /\ downloads'[t.key].error = None]_vars
    /\ [](\A k \in DOMAIN downloads :
            downloads[k].status = "completed" => downloads[k].progress = FullProgress)
\* a job whose last progress line said 45.2% is Completed
C8_Witness ==
    \E k \in DOMAIN downloads :
        /\ downloads[k].status = "completed"
        /\ downloads[k].progress = FullProgress
        /\ downloads[k].speed # << >>

\* what the claims on a nonzero exit share: the record becomes Failed with some
\* error, the task is gone, and a Failed record changes only by a new admission
FailsAndStays(t) ==
    /\ t.key \in DOMAIN downloads'
    /\ downloads'[t.key].status = "failed"
    /\ downloads'[t.key].error # None
    /\ \A u \in BagToSet(tasks') : u.key # t.key
FailedUntilAdmitted ==
    \A k \in DOMAIN downloads :
        (downloads[k].status = "failed" /\ downloads'[k] # downloads[k]) =>
            (start_download(k, TRUE) /\ downloads'[k].status = "starting")
ValidUtf8(bytes) == \A i \in 1..Len(bytes) : bytes[i] # "0xFF"
\* C9 as stated: on a nonzero exit the error is, byte for byte, what the child
\* wrote to stderr.
C9_StderrVerbatim ==
    [][/\ \A t \in Running :
            (Finalize(t) /\ t.code # 0) =>
               (FailsAndStays(t) /\ Utf8Bytes(downloads'[t.key].error[1]) = t.written)
       /\ FailedUntilAdmitted]_vars
\* C9 as amended: the error is all the child wrote to stderr, character for
\* character, with U+FFFD in the place of each byte that is no UTF-8; it is the
\* text byte for byte when the output is UTF-8.
C9_StderrLossy ==
    [][/\ \A t \in Running :
            (Finalize(t) /\ t.code # 0) =>
               /\ FailsAndStays(t)
               /\ Len(downloads'[t.key].error[1]) = Len(t.written)
               /\ \A i \in 1..Len(t.written) :
                     downloads'[t.key].error[1][i] =
                        (IF t.written[i] = "0xFF" THEN "U+FFFD" ELSE t.written[i])
               /\ ValidUtf8(t.written) => Utf8Bytes(downloads'[t.key].error[1]) = t.written
       /\ FailedUntilAdmitted]_vars
\* a job is Failed with a stderr text longer than the pipe holds
C9_Witness ==
    \E k \in DOMAIN downloads :
        /\ downloads[k].status = "failed"
        /\ downloads[k].error # None
        /\ Len(downloads[k].error[1]) = MaxErr
        /\ \A i \in 1..MaxErr : downloads[k].error[1][i] \in {"E", "U+FFFD"}
        /\ ~HasTask(k)

\* C10: a failing spawn takes the record from Starting to Failed with the spawn
\* error in its error field, and the task is gone; no task that has not spawned
\* its child has a record in another state than Starting.
C10_SpawnFailure ==
    /\ [][\A t \in Running, e \in IoErrors :
            SpawnFails(t, e) =>
               /\ downloads[t.key].status = "starting"
               /\ downloads'[t.key] = [downloads[t.key] EXCEPT
                                          !.status = "failed",
                                          !.error = Some(<<"Failed to start yt-dlp process: ", e>>)]
               /\ \A u \in BagToSet(tasks') : u.key # t.key]_vars
    /\ [](\A t \in Running :
            t.pc = "spawn" => (t.key \in DOMAIN downloads /\ downloads[t.key].status = "starting"))
\* a record is Failed with the spawn error and its task is gone
C10_Witness ==
    \E k \in DOMAIN downloads, e \in IoErrors :
        /\ downloads[k].status = "failed"
        /\ downloads[k].error = Some(<<"Failed to start yt-dlp process: ", e>>)
        /\ downloads[k].eta = << >>
        /\ ~HasTask(k)

\* C11: the answer to a submission is decided at admission: an admitted
\* submission is answered with success in the step that inserts the record, while
\* its task has not yet run, and no step of a task or a child (a failing spawn, a
\* nonzero exit, a finalization) changes the answer a submission got.
C11_AnswerAtAdmission ==
    /\ [][\A k \in Keys :
            (start_download(k, TRUE) /\ ~InProgress(k)) =>
               /\ response' = <<k, Accepted>>
               /\ \E t \in BagToSet(tasks') : t.key = k /\ t.pc = "spawn"]_vars
    /\ [][response' # response => \E k \in Keys, dir_ok \in BOOLEAN : start_download(k, dir_ok)]_vars
\* a submission was answered with success and its job has failed since; the
\* failure is in the record only
C11_Witness ==
    \E k \in DOMAIN downloads :
        /\ response = <<k, Accepted>>
        /\ downloads[k].status = "failed"
        /\ downloads[k].error # None
        /\ ~HasTask(k)

\* the number of supervising tasks of key k that have not returned
TasksOf(k) ==
    BagCardinality([t \in {u \in BagToSet(tasks) : u.key = k} |-> CopiesIn(t, tasks)])

\* C12: whatever the interleaving of submissions and tasks, a key has at most one
\* supervising task that has not finalized, and it has one exactly while its
\* record is Starting or Downloading; a submission for a key that has a task is
\* rejected and starts no second task, a submission for a key without one starts
\* exactly one.
C12_OneTaskPerKey ==
    /\ [](\A k \in Keys : TasksOf(k) <= 1 /\ (TasksOf(k) = 1 <=> InProgress(k)))
    /\ [][\A k \in Keys :
            start_download(k, TRUE) =>
               IF HasTask(k)
               THEN tasks' = tasks /\ response' = <<k, BadRequest>>
               ELSE TasksOf(k)' = 1 /\ response' = <<k, Accepted>>]_vars
\* both keys have their task, and a second submission for one of them was rejected
C12_Witness ==
    /\ \A k \in Keys : TasksOf(k) = 1
    /\ \E k \in Keys : response = <<k, BadRequest>>

\* task t has a line to take from its stdout pipe, or an exited child and a
\* drained stderr to finalize with
Due(t) ==
    \/ t.pc = "read" /\ t.stdout # << >>
    \/ t.pc = "wait" /\ t.exited /\ t.stderr = << >>
\* task t is suspended in lines.next() or in wait_with_output on a child that
\* has written nothing more and has not exited
Suspended(t) == t.pc \in {"read", "wait"} /\ t.stdout = << >> /\ ~t.exited

\* C13: no task holds the registry lock while it waits for a line or for the exit
\* of its child: the lock is free in every state between two steps, so whatever
\* the other jobs' children do a submission and a status snapshot can be taken,
\* a task with a line to take or an exit to finalize can take its step, and under
\* fair scheduling of the tasks every such due step of every key is taken.
C13_LockFreeWhileSuspended ==
    /\ [](lock = None)
    /\ [](\A k \in Keys : ENABLED start_download(k, TRUE))
    /\ [](ENABLED get_status)
    /\ [](\A t \in Running : Due(t) => ENABLED (ReadLine(t) \/ ReadError(t) \/ Finalize(t)))
    /\ \A k \in Keys : []<>(\A t \in Running : t.key = k => ~Due(t))
\* one job waits for the next line of a silent child after a progress update,
\* and the job of the other key, submitted later, is finished
C13_Witness ==
    \E k1 \in Keys, k2 \in Keys :
        /\ k1 # k2
        /\ \E t \in Running : t.key = k1 /\ t.pc = "read" /\ Suspended(t) /\ t.seen # << >>
        /\ downloads[k1].status = "downloading"
        /\ Finished(k2) /\ ~HasTask(k2)
        /\ response = <<k2, Accepted>>

\* C14: a progress observation, a successful or failing finalization and a spawn
\* failure of the task of key k leave the set of keys and the record of every
\* other key as they were.
C14_OtherKeysUntouched ==
    [][\A t \in Running :
         (\/ \E e \in IoErrors : SpawnFails(t, e)
          \/ ReadLine(t)
          \/ \E e \in IoErrors : WaitFails(t, e)
          \/ Finalize(t))
         => /\ DOMAIN downloads' = DOMAIN downloads
            /\ \A k \in DOMAIN downloads : k # t.key => downloads'[k] = downloads[k]]_vars
\* the job submitted last has failed while the job of the other key is
\* Downloading with its progress and its task
C14_Witness ==
    \E k1 \in Keys, k2 \in Keys :
        /\ k1 # k2
        /\ response = <<k1, Accepted>>
        /\ k1 \in DOMAIN downloads /\ downloads[k1].status = "failed" /\ ~HasTask(k1)
        /\ k2 \in DOMAIN downloads /\ downloads[k2].status = "downloading"
        /\ downloads[k2].progress = 452 /\ downloads[k2].error = None
        /\ HasTask(k2)

\* a record as the registry holds it between two steps: the fields of one state
\* of a job, no mix of two
Untorn(status) ==
    /\ status.status = "starting" =>
          status.progress = 0 /\ status.eta = << >> /\ status.speed = << >> /\ status.error = None
    /\ status.status = "downloading" => status.error = None /\ status.eta # << >>
    /\ status.status = "completed" => status.progress = FullProgress /\ status.error = None
    /\ status.status = "failed" <=> status.error # None

\* C15: the answer to a status query is the whole registry as it is at the
\* instant of the query, every record of it with the fields of one state of its
\* job, and a later admission, progress update or finalization leaves an answer
\* already given as it is.
C15_SnapshotOfOneInstant ==
    /\ [][snapshot' # snapshot => snapshot' = Some(downloads)]_vars
    /\ [][downloads' # downloads => snapshot' = snapshot]_vars
    /\ [](snapshot # None => \A k \in DOMAIN snapshot[1] : Untorn(snapshot[1][k]))
\* an answer shows both keys, one of them Downloading, and that job has
\* completed since: the answer still shows it Downloading
C15_Witness ==
    /\ snapshot # None
    /\ DOMAIN snapshot[1] = Keys
    /\ \E k \in Keys :
          /\ snapshot[1][k].status = "downloading"
          /\ snapshot[1][k].progress = 452
          /\ downloads[k].status = "completed"

\* C16: a status query changes neither the registry nor the tasks, and its
\* answer is the registry it leaves behind: a query on a registry that still
\* equals the previous answer gives that answer again.
C16_SnapshotReadOnly ==
    [][get_status =>
          /\ UNCHANGED <<downloads, tasks, response>>
          /\ snapshot' = Some(downloads')
          /\ (snapshot = Some(downloads) => snapshot' = snapshot)]_vars
\* an answer was given while one job was finished and the other one in flight,
\* and the registry has not changed since
C16_Witness ==
    /\ snapshot = Some(downloads)
    /\ \E k1 \in Keys, k2 \in Keys : Finished(k1) /\ InProgress(k2) /\ HasTask(k2)

\* the positions of the matching lines among the lines a task has processed, and
\* what the last of them shows
Matching(seen) == {i \in 1..Len(seen) : Observed[seen[i]] # None}
LastObserved(seen) ==
    Observed[seen[CHOOSE i \in Matching(seen) : \A j \in Matching(seen) : j <= i]][1]

\* C17: while a task has not finalized, the record of its key shows the progress,
\* eta and speed of the last matching line among the lines the task has processed,
\* in the order the child wrote them, and is Starting with the initial fields when
\* none of them matched; a progress observation is applied to a record that is
\* Starting or Downloading only, and a Completed or Failed record has no task left
\* that could apply one.
C17_LastMatchingLine ==
    /\ [](\A t \in Running :
            /\ t.key \in DOMAIN downloads
            /\ IF Matching(t.seen) = {}
               THEN downloads[t.key] = StartingStatus
               ELSE /\ downloads[t.key].status = "downloading"
                    /\ downloads[t.key].progress = LastObserved(t.seen).progress
                    /\ downloads[t.key].eta = LastObserved(t.seen).eta
                    /\ downloads[t.key].speed = LastObserved(t.seen).speed)
    /\ [](\A k \in Keys : Finished(k) => ~HasTask(k))
    /\ [][\A t \in Running : ReadLine(t) => InProgress(t.key)]_vars
\* a task has processed the 250% line and then the 45.2% line, and the record
\* shows the second one
C17_Witness ==
    \E t \in Running :
        /\ t.seen = <<LineOver, LineRate>>
        /\ downloads[t.key].progress = 452
        /\ downloads[t.key].eta = <<"0", "0", ":", "0", "7">>
        /\ downloads[t.key].speed # << >>

\* C18: a task that takes a line without the progress shape from its stdout pipe
\* leaves the registry as it was and stays in its read loop, and the record of a
\* task that has processed no matching line is the initial Starting record.
C18_NonMatchingIgnored ==
    /\ [][\A t \in Running :
            (\/ ReadLine(t) /\ Observed[Head(t.stdout)] = None
             \/ ReadError(t))
            => /\ downloads' = downloads
               /\ \E u \in BagToSet(tasks') : u.key = t.key /\ u.pc = "read"]_vars
    /\ [](\A t \in Running : Matching(t.seen) = {} => downloads[t.key] = StartingStatus)

\* flag name is among the arguments args; it is followed by value
Has(args, name) == \E i \in 1..Len(args) : args[i] = Arg(name)
HasWith(args, name, value) ==
    \E i \in 1..(Len(args) - 1) : args[i] = Arg(name) /\ args[i + 1] = value
\* flag name is among args exactly when opt is set, and then once and with its value
OptIff(args, name, opt) ==
    /\ Has(args, name) <=> opt # None
    /\ opt # None => HasWith(args, name, opt[1])

\* C19: whatever optional directives a request sets, the arguments built for it
\* hold "-f" followed by the format id, "--newline", and "-o" followed by the
\* output template, and the last argument is the url.
C19_RequiredArgs ==
    argv # None =>
        LET args == argv[1]
            payload == request[1]
        IN /\ HasWith(args, "-f", payload.format_id)
           /\ Has(args, "--newline")
           /\ HasWith(args, "-o", OutputTemplate(payload, DownloadDirectory))
           /\ args[Len(args)] = payload.url
\* the command of a request that sets every optional directive and no template
C19_Witness ==
    /\ argv # None
    /\ request[1].output_template = None
    /\ request[1].write_info_json /\ request[1].write_thumbnail /\ request[1].restrict_filenames
    /\ request[1].playlist_items # None /\ request[1].match_filter # None
    /\ request[1].max_filesize # None /\ request[1].extract_audio
    /\ request[1].audio_format # None /\ request[1].audio_quality # None
    /\ request[1].remux_video # None /\ request[1].embed_thumbnail = Some(TRUE)
    /\ request[1].sponsorblock_remove # None /\ request[1].sponsorblock_mark # None
    /\ Len(argv[1]) = 25
    /\ argv[1][5] = <<"downloads", "/", DefaultFileTemplate>>

\* the flags of the directives that depend on no other directive
IndependentFlags(args, payload) ==
    /\ Has(args, "--write-info-json") <=> payload.write_info_json
    /\ Has(args, "--write-thumbnail") <=> payload.write_thumbnail
    /\ Has(args, "--restrict-filenames") <=> payload.restrict_filenames
    /\ OptIff(args, "--playlist-items", payload.playlist_items)
    /\ OptIff(args, "--match-filters", payload.match_filter)
    /\ OptIff(args, "--max-filesize", payload.max_filesize)
    /\ Has(args, "--extract-audio") <=> payload.extract_audio
    /\ Has(args, "--embed-thumbnail") <=> payload.embed_thumbnail = Some(TRUE)
    /\ OptIff(args, "--sponsorblock-remove", payload.sponsorblock_remove)
    /\ OptIff(args, "--sponsorblock-mark", payload.sponsorblock_mark)
\* the remux flag is there exactly when extract_audio is false and remux_video is set
RemuxFlag(args, payload) ==
    /\ Has(args, "--remux-video") <=> (~payload.extract_audio /\ payload.remux_video # None)
    /\ Has(args, "--remux-video") => HasWith(args, "--remux-video", payload.remux_video[1])

\* C20 as stated: the flag of each optional directive is among the arguments if
\* and only if the request sets the directive, the audio format and the audio
\* quality included, except that the remux flag needs extract_audio to be false.
C20_FlagIffSet ==
    argv # None =>
        LET args == argv[1]
            payload == request[1]
        IN /\ IndependentFlags(args, payload)
           /\ OptIff(args, "--audio-format", payload.audio_format)
           /\ OptIff(args, "--audio-quality", payload.audio_quality)
           /\ RemuxFlag(args, payload)

\* C20, amended: as stated, except that the flags of the audio format and of the
\* audio quality are among the arguments exactly when extract_audio is true and
\* the request sets them.
C20_FlagIffSetAndApplicable ==
    argv # None =>
        LET args == argv[1]
            payload == request[1]
        IN /\ IndependentFlags(args, payload)
           /\ OptIff(args, "--audio-format",
                     IF payload.extract_audio THEN payload.audio_format ELSE None)
           /\ OptIff(args, "--audio-quality",
                     IF payload.extract_audio THEN payload.audio_quality ELSE None)
           /\ RemuxFlag(args, payload)
\* the command of a request with extract_audio, an audio format, no audio
\* quality and a remux format: the audio flags that are set, and no remux flag
C20_Witness ==
    /\ argv # None
    /\ request[1].extract_audio
    /\ request[1].audio_format # None /\ request[1].audio_quality = None
    /\ request[1].remux_video # None
    /\ Has(argv[1], "--extract-audio")
    /\ HasWith(argv[1], "--audio-format", Arg("mp3"))
    /\ ~Has(argv[1], "--audio-quality")
    /\ ~Has(argv[1], "--remux-video")

\* C21: a task that takes a matching line leaves the record of its key
\* Downloading with the progress, the eta and the speed of that line, the speed
\* empty when the line has no "at" clause, and with the error it had; the same
\* observation applied once more changes nothing.
C21_ObservationOverwrites ==
    [][\A t \in Running :
         (ReadLine(t) /\ Observed[Head(t.stdout)] # None) =>
            LET obs == Observed[Head(t.stdout)][1]
                k == t.key
            IN /\ downloads'[k] = [status |-> "downloading",
                                   progress |-> obs.progress,
                                   eta |-> obs.eta,
                                   speed |-> obs.speed,
                                   error |-> downloads[k].error]
               /\ Captures(Head(t.stdout))[1].speed = None => downloads'[k].speed = << >>
               /\ ProgressUpdate(downloads'[k], obs) = downloads'[k]
               /\ ProgressUpdate(ProgressUpdate(downloads[k], obs), obs)
                     = ProgressUpdate(downloads[k], obs)]_vars
\* a line with a rate and then a line without one have been processed: the
\* record shows the second line and no speed
C21_Witness ==
    \E t \in Running :
        /\ t.seen = <<LineRate, LineOver>>
        /\ downloads[t.key] = [status |-> "downloading", progress |-> 2500,
                               eta |-> <<"0", "0", ":", "0", "9">>,
                               speed |-> << >>, error |-> None]

\* task t takes one of its three endings
Ending(t) ==
    \/ \E e \in IoErrors : SpawnFails(t, e)
    \/ \E e \in IoErrors : WaitFails(t, e)
    \/ Finalize(t)
\* at most one ending per admission: a record becomes Completed or Failed by
\* an ending of the task of its key only, an ending writes a terminal state and
\* is the last step of its task, and a finished record has no task
EndsAtMostOnce ==
    /\ [][\A k \in Keys :
            (InProgress(k) /\ Finished(k)') =>
               \E t \in Running : t.key = k /\ Ending(t) /\ TasksOf(k)' = 0]_vars
    /\ [][\A t \in Running : Ending(t) => Finished(t.key)' /\ TasksOf(t.key)' = 0]_vars
    /\ [][\A k \in Keys : TasksOf(k)' < TasksOf(k) => \E t \in Running : t.key = k /\ Ending(t)]_vars
    /\ [](\A k \in Keys : Finished(k) => TasksOf(k) = 0)

\* C22: every admitted submission is finalized exactly once: its task reaches
\* one of its three endings, that ending writes Completed or Failed, no other
\* step does, and the task takes no step after it.
C22_FinalizedExactlyOnce ==
    /\ EndsAtMostOnce
    /\ \A k \in Keys : (TasksOf(k) = 1) ~> (TasksOf(k) = 0 /\ Finished(k))

\* C23: a submission admitted for a key whose record is Completed or Failed
\* leaves that record Starting with progress 0, empty eta and speed and no
\* error, whatever the record of the previous run held.
C23_ReadmissionResets ==
    [][\A k \in Keys :
         (start_download(k, TRUE) /\ Finished(k)) =>
            /\ response' = <<k, Accepted>>
            /\ downloads'[k] = [status |-> "starting", progress |-> 0, eta |-> << >>,
                                speed |-> << >>, error |-> None]]_vars
\* a status answer shows the previous run of a key Failed with an error after
\* progress 45.2, and the record of the key is a fresh Starting one with its task
C23_Witness ==
    \E k \in Keys :
        /\ snapshot # None
        /\ k \in DOMAIN snapshot[1]
        /\ snapshot[1][k].status = "failed"
        /\ snapshot[1][k].error # None
        /\ snapshot[1][k].progress = 452
        /\ snapshot[1][k].eta # << >> /\ snapshot[1][k].speed # << >>
        /\ response = <<k, Accepted>>
        /\ downloads[k] = [status |-> "starting", progress |-> 0, eta |-> << >>,
                           speed |-> << >>, error |-> None]
        /\ HasTask(k)

\* the record of key k keeps the fields in names over the step
Keeps(k, names) == \A n \in names : downloads'[k][n] = downloads[k][n]

\* C24: a failing ending (spawn failure, failed wait, nonzero exit) makes the
\* record Failed with an error and keeps its progress, eta and speed; a
\* successful ending makes it Completed with no error and progress 100 and
\* keeps its eta and speed.
C24_FinalizationFrame ==
    [][\A t \in Running :
         /\ ((\/ \E e \in IoErrors : SpawnFails(t, e)
              \/ \E e \in IoErrors : WaitFails(t, e)
              \/ Finalize(t) /\ t.code # 0)
             => /\ downloads'[t.key].status = "failed"
                /\ downloads'[t.key].error # None
                /\ Keeps(t.key, {"progress", "eta", "speed"}))
         /\ ((Finalize(t) /\ t.code = 0)
             => /\ downloads'[t.key].status = "completed"
                /\ downloads'[t.key].error = None
                /\ downloads'[t.key].progress = FullProgress
                /\ Keeps(t.key, {"eta", "speed"}))]_vars
\* a job has failed with stderr text after its last observation, 45.2% at
\* 1.5MiB/s with ETA 00:07, which the record still shows
C24_Witness ==
    \E k \in DOMAIN downloads :
        /\ downloads[k].status = "failed"
        /\ downloads[k].error # None /\ downloads[k].error[1] # << >>
        /\ downloads[k].progress = 452
        /\ downloads[k].eta = <<"0", "0", ":", "0", "7">>
        /\ downloads[k].speed = <<"1", ".", "5", "M", "i", "B", "/", "s">>
        /\ ~HasTask(k)

====
